---- MODULE Spec2Model ----
(***************************************************************************)
(* Flow-Theory engines: the discrete-time flow / capacity / trust / drift  *)
(* recurrences of engine_a.py, engine_b.py, engine_c.py,                   *)
(* kernel_2_capacity_pressure.py, kernel_3_drift_cycle.py and              *)
(* two_system_contagion_kernel.py.                                         *)
(*                                                                         *)
(* Numbers.  The Python floats are represented in fixed point, in          *)
(* thousandths: 0.42 is 420, 1.0 is 1000.  Sums and differences are exact; *)
(* a product of two quantities is rescaled and rounded down to the next    *)
(* thousandth (Mul), as a float product is rounded to the next float.      *)
(*                                                                         *)
(* One behaviour is one call of one entry point of the library: Init       *)
(* chooses the entry point (driver) and its arguments (args), and the      *)
(* actions are the iterations of that driver's loop and its return or      *)
(* its raise.                                                              *)
(***************************************************************************)
EXTENDS Integers, Sequences, FiniteSets, TLC

VARIABLES
    driver,     \* the entry point that was called
    args,       \* its arguments (never change during the call)
    state,      \* the driver's running state (local `state`, or S, C, D ...)
    history,    \* the driver's list under construction (`history`, `states`)
    t,          \* number of loop iterations completed
    pc,         \* "loop", "returned" or "raised"
    result,     \* <<>> while nothing was returned, <<value>> once returned
    pressures,  \* the pressures computed by the most recent step
    shocks      \* the shocks handed to the most recent step's transitions

vars == <<driver, args, state, history, t, pc, result, pressures, shocks>>

----------------------------------------------------------------------------
(* Bounds of the model. *)

MaxSteps == 3

MaxShockLen == 2

MaxN == 3

----------------------------------------------------------------------------
(* Arithmetic. *)

Max(a, b) == IF a >= b THEN a ELSE b

Min(a, b) == IF a <= b THEN a ELSE b

Abs(a) == IF a < 0 THEN 0 - a ELSE a

Mul(a, b) == (a * b) \div 1000

\* Optional[list]: None is <<>>, a list l is <<l>>.
None == <<>>

SeqsUpTo(S, n) == UNION {[1..k -> S] : k \in 0..n}

Optional(S) == {None} \cup {<<l>> : l \in S}

----------------------------------------------------------------------------
(* engine_a.py *)

\* the pressure without its floor at zero
engine_a_P_signed(s) == s.F - s.C

\* P = max(0.0, F - C)
engine_a_P(s) == Max(0, s.F - s.C)

\* engine_a_step with the upper bound of the trust clamp left out
engine_a_step_no_upper_clamp(s, p, shock_F, shock_C) ==
    LET P == engine_a_P(s)
        T_next == Max(0, s.T + p.rho_trust - Mul(p.lambda_trust, P))
    IN  [F |-> s.F + Mul(p.r, T_next) + shock_F - P,
         C |-> s.C + Mul(p.kappa_capacity, s.F - s.C) + shock_C,
         T |-> T_next,
         D |-> s.D + Mul(p.alpha, P) - Mul(p.delta, s.D)]

\* engine_a_step with the flow reinforced by the pre-step trust
engine_a_step_stale_trust(s, p, shock_F, shock_C) ==
    LET P == engine_a_P(s)
        T_next == Max(0, Min(1000,
                      s.T + p.rho_trust - Mul(p.lambda_trust, P)))
    IN  [F |-> s.F + Mul(p.r, s.T) + shock_F - P,
         C |-> s.C + Mul(p.kappa_capacity, s.F - s.C) + shock_C,
         T |-> T_next,
         D |-> s.D + Mul(p.alpha, P) - Mul(p.delta, s.D)]

\* engine_a_step with the pressure term of the drift subtracted
engine_a_step_drift_sign(s, p, shock_F, shock_C) ==
    LET P == engine_a_P(s)
        T_next == Max(0, Min(1000,
                      s.T + p.rho_trust - Mul(p.lambda_trust, P)))
    IN  [F |-> s.F + Mul(p.r, T_next) + shock_F - P,
         C |-> s.C + Mul(p.kappa_capacity, s.F - s.C) + shock_C,
         T |-> T_next,
         D |-> s.D - Mul(p.alpha, P) - Mul(p.delta, s.D)]

engine_a_step(s, p, shock_F, shock_C) ==
    LET F == s.F
        C == s.C
        T == s.T
        D == s.D
        P == engine_a_P(s)
        D_next == D + Mul(p.alpha, P) - Mul(p.delta, D)
        T_raw == T + p.rho_trust - Mul(p.lambda_trust, P)
        T_next == Max(0, Min(1000, T_raw))
        C_next == C + Mul(p.kappa_capacity, F - C) + shock_C
        F_next == F + Mul(p.r, T_next) + shock_F - P
    IN  [F |-> F_next, C |-> C_next, T |-> T_next, D |-> D_next]

\* the shock lookup with the bound one too low: the last entry is dropped
exo_drops_last(shocks_X, i) ==
    IF shocks_X # None /\ i + 1 < Len(shocks_X[1])
    THEN shocks_X[1][i + 1] ELSE 0

\* shocks_X[i] if shocks_X is not None and i < len(shocks_X) else 0.0
\* (Python lists are indexed from 0, sequences from 1)
exo(shocks_X, i) ==
    IF shocks_X # None /\ i < Len(shocks_X[1]) THEN shocks_X[1][i + 1] ELSE 0

\* the loop of run_engine_a appending before it steps: the entry added is
\* the state the iteration started from
run_engine_a_loop_appends_first ==
    /\ driver = "run_engine_a"
    /\ pc = "loop"
    /\ t < args.steps
    /\ LET sF == exo(args.shocks_F, t)
           sC == exo(args.shocks_C, t)
       IN  /\ pressures' = <<engine_a_P(state)>>
           /\ shocks' = <<[F |-> sF, C |-> sC]>>
           /\ state' = engine_a_step(state, args.params, sF, sC)
           /\ history' = Append(history, state)
    /\ t' = t + 1
    /\ UNCHANGED <<driver, args, pc, result>>

run_engine_a_loop ==
    /\ driver = "run_engine_a"
    /\ pc = "loop"
    /\ t < args.steps
    /\ LET sF == exo(args.shocks_F, t)
           sC == exo(args.shocks_C, t)
           next == engine_a_step(state, args.params, sF, sC)
       IN  /\ pressures' = <<engine_a_P(state)>>
           /\ shocks' = <<[F |-> sF, C |-> sC]>>
           /\ state' = next
           /\ history' = Append(history, next)
    /\ t' = t + 1
    /\ UNCHANGED <<driver, args, pc, result>>

run_engine_a_return ==
    /\ driver = "run_engine_a"
    /\ pc = "loop"
    /\ ~(t < args.steps)
    /\ pc' = "returned"
    /\ result' = <<history>>
    /\ UNCHANGED <<driver, args, state, history, t, pressures, shocks>>

----------------------------------------------------------------------------
(* engine_b.py *)

\* Pf = max(0.0, Ff - Cf); Ps = max(0.0, Fs - Cs)
engine_b_P(s) == <<Max(0, s.fast.F - s.fast.C), Max(0, s.slow.F - s.slow.C)>>

engine_b_step(s, p, shock_F_fast, shock_C_fast, shock_F_slow, shock_C_slow) ==
    LET Ff == s.fast.F
        Cf == s.fast.C
        Tf == s.fast.T
        Df == s.fast.D
        Fs == s.slow.F
        Cs == s.slow.C
        Ts == s.slow.T
        Ds == s.slow.D
        Pf == engine_b_P(s)[1]
        Ps == engine_b_P(s)[2]
        Df_next == Df + Mul(p.fast.alpha, Pf) - Mul(p.fast.delta, Df)
        Tf_next == Max(0, Min(1000,
                       Tf + p.fast.rho_trust - Mul(p.fast.lambda_trust, Pf)))
        Cf_next == Cf + Mul(p.fast.kappa_capacity, Ff - Cf) + shock_C_fast
        Ff_next == Ff + Mul(p.fast.r, Tf_next) + Mul(p.gamma_fs, Ts)
                      + shock_F_fast - Pf
        Ds_next == Ds + (Mul(p.slow.alpha, Ps)
                         + Mul(p.slow.beta_drift_from_other, Pf)
                         - Mul(p.slow.delta, Ds))
        Ts_next == Max(0, Min(1000,
                       Ts + p.slow.rho_trust - Mul(p.slow.lambda_trust, Ps)))
        Cs_next == Cs + Mul(p.slow.kappa_capacity, Fs - Cs) + shock_C_slow
        Fs_next == Fs + Mul(p.slow.r, Ts_next) + shock_F_slow - Ps
    IN  [fast |-> [F |-> Ff_next, C |-> Cf_next, T |-> Tf_next, D |-> Df_next],
         slow |-> [F |-> Fs_next, C |-> Cs_next, T |-> Ts_next, D |-> Ds_next]]

\* engine_b_step(state, params): every shock keeps its default 0.0
run_engine_b_loop ==
    /\ driver = "run_engine_b"
    /\ pc = "loop"
    /\ t < args.steps
    /\ LET next == engine_b_step(state, args.params, 0, 0, 0, 0)
       IN  /\ pressures' = engine_b_P(state)
           /\ shocks' = <<[F |-> 0, C |-> 0], [F |-> 0, C |-> 0]>>
           /\ state' = next
           /\ history' = Append(history, next)
    /\ t' = t + 1
    /\ UNCHANGED <<driver, args, pc, result>>

run_engine_b_return ==
    /\ driver = "run_engine_b"
    /\ pc = "loop"
    /\ ~(t < args.steps)
    /\ pc' = "returned"
    /\ result' = <<history>>
    /\ UNCHANGED <<driver, args, state, history, t, pressures, shocks>>

----------------------------------------------------------------------------
(* engine_c.py *)

\* N = len(state.systems) and the two assert statements
engine_c_asserts(s, p) ==
    LET N == Len(s.systems)
    IN  /\ Len(p.params_per_system) = N
        /\ Len(p.W) = N
        /\ \A row \in 1..Len(p.W) : Len(p.W[row]) = N

\* pressures = []; for s in state.systems: pressures.append(max(0.0, s.F - s.C))
engine_c_pressures(s) ==
    [j \in 1..Len(s.systems) |-> Max(0, s.systems[j].F - s.systems[j].C)]

\* total = 0.0; for j in range(N): total += W[i][j] * pressures[j]
\* (n is the number of terms already added)
RECURSIVE engine_c_total(_, _, _)
engine_c_total(row, P, n) ==
    IF n = 0 THEN 0 ELSE engine_c_total(row, P, n - 1) + Mul(row[n], P[n])

\* endogenous_shocks_F with the coupling weight left out of the sum
RECURSIVE unweighted_total(_, _)
unweighted_total(P, n) ==
    IF n = 0 THEN 0 ELSE unweighted_total(P, n - 1) + P[n]

endogenous_shocks_F_unweighted(s, p) ==
    [i \in 1..Len(s.systems) |->
        unweighted_total(engine_c_pressures(s), Len(s.systems))]

endogenous_shocks_F(s, p) ==
    LET N == Len(s.systems)
    IN  [i \in 1..N |-> engine_c_total(p.W[i], engine_c_pressures(s), N)]

\* total_F_shock = exo_F + endogenous_shocks_F[i], for the system at
\* sequence position i (Python index i - 1)
total_F_shock(s, p, shocks_F, i) ==
    exo(shocks_F, i - 1) + endogenous_shocks_F(s, p)[i]

\* engine_c_step with the pressures recomputed while the systems are being
\* updated: system k reads the states systems 1..k-1 already moved to
RECURSIVE engine_c_partial(_, _, _, _, _)
engine_c_partial(s, p, shocks_F, shocks_C, k) ==
    IF k = 0
    THEN s.systems
    ELSE LET before == engine_c_partial(s, p, shocks_F, shocks_C, k - 1)
         IN  [before EXCEPT ![k] =
                 engine_a_step(s.systems[k], p.params_per_system[k],
                               total_F_shock([systems |-> before], p,
                                             shocks_F, k),
                               exo(shocks_C, k - 1))]

engine_c_step_interleaved(s, p, shocks_F, shocks_C) ==
    [systems |-> engine_c_partial(s, p, shocks_F, shocks_C, Len(s.systems))]

engine_c_step(s, p, shocks_F, shocks_C) ==
    [systems |->
        [i \in 1..Len(s.systems) |->
            engine_a_step(s.systems[i], p.params_per_system[i],
                          total_F_shock(s, p, shocks_F, i),
                          exo(shocks_C, i - 1))]]

\* the shocks each system's transition receives in engine_c_step
engine_c_shocks(s, p, shocks_F, shocks_C) ==
    [i \in 1..Len(s.systems) |->
        [F |-> total_F_shock(s, p, shocks_F, i), C |-> exo(shocks_C, i - 1)]]

\* one iteration of run_engine_c: state = engine_c_step(state, params)
run_engine_c_loop ==
    /\ driver = "run_engine_c"
    /\ pc = "loop"
    /\ t < args.steps
    /\ engine_c_asserts(state, args.params)
    /\ LET next == engine_c_step(state, args.params, None, None)
       IN  /\ pressures' = engine_c_pressures(state)
           /\ shocks' = engine_c_shocks(state, args.params, None, None)
           /\ state' = next
           /\ history' = Append(history, next)
    /\ t' = t + 1
    /\ UNCHANGED <<driver, args, pc, result>>

\* an assert of engine_c_step fails: AssertionError leaves run_engine_c
run_engine_c_raise ==
    /\ driver = "run_engine_c"
    /\ pc = "loop"
    /\ t < args.steps
    /\ ~engine_c_asserts(state, args.params)
    /\ pc' = "raised"
    /\ UNCHANGED <<driver, args, state, history, t, result, pressures, shocks>>

run_engine_c_return ==
    /\ driver = "run_engine_c"
    /\ pc = "loop"
    /\ ~(t < args.steps)
    /\ pc' = "returned"
    /\ result' = <<history>>
    /\ UNCHANGED <<driver, args, state, history, t, pressures, shocks>>

\* a direct call engine_c_step(state, params, shocks_F, shocks_C)
engine_c_step_call ==
    /\ driver = "engine_c_step"
    /\ pc = "loop"
    /\ engine_c_asserts(state, args.params)
    /\ LET next == engine_c_step(state, args.params,
                                 args.shocks_F, args.shocks_C)
       IN  /\ pressures' = engine_c_pressures(state)
           /\ shocks' = engine_c_shocks(state, args.params,
                                        args.shocks_F, args.shocks_C)
           /\ state' = next
           /\ result' = <<next>>
    /\ t' = t + 1
    /\ pc' = "returned"
    /\ UNCHANGED <<driver, args, history>>

engine_c_step_raise ==
    /\ driver = "engine_c_step"
    /\ pc = "loop"
    /\ ~engine_c_asserts(state, args.params)
    /\ pc' = "raised"
    /\ UNCHANGED <<driver, args, state, history, t, result, pressures, shocks>>

----------------------------------------------------------------------------
(* kernel_2_capacity_pressure.py and kernel_3_drift_cycle.py *)

\* A caller-supplied rule inflow_rule(t, S_t, C_t[, D_t]), given as a kind
\* and a coefficient v: a constant, a ramp in t, or a share of the stock,
\* of the capacity or of the drift.
call_rule(rl, tt, S, C, D) ==
    CASE rl.kind = "const" -> rl.v
      [] rl.kind = "ramp" -> rl.v * tt
      [] rl.kind = "stock" -> Mul(rl.v, S)
      [] rl.kind = "capacity" -> Mul(rl.v, C)
      [] rl.kind = "drift" -> Mul(rl.v, D)

kernel2_step(stock, capacity, inflow, outflow, k_capacity) ==
    LET flow == inflow - outflow
        pressure == flow - capacity
        stock_next == stock + inflow - outflow
        capacity_next == capacity + Mul(k_capacity, flow - capacity)
    IN  [stock_next |-> stock_next, capacity_next |-> capacity_next,
         flow |-> flow, pressure |-> pressure]

simulate_kernel2_loop ==
    /\ driver = "simulate_kernel2"
    /\ pc = "loop"
    /\ t < args.T
    /\ LET S == state.S
           C == state.C
           I_t == call_rule(args.inflow_rule, t, S, C, 0)
           O_t == call_rule(args.outflow_rule, t, S, C, 0)
           r == kernel2_step(S, C, I_t, O_t, args.k_capacity)
       IN  /\ history' = Append(history,
                   [t |-> t, stock |-> S, inflow |-> I_t, outflow |-> O_t,
                    flow |-> r.flow, capacity |-> C, pressure |-> r.pressure])
           /\ pressures' = <<r.pressure>>
           /\ state' = [S |-> r.stock_next, C |-> r.capacity_next]
    /\ t' = t + 1
    /\ UNCHANGED <<driver, args, pc, result, shocks>>

simulate_kernel2_return ==
    /\ driver = "simulate_kernel2"
    /\ pc = "loop"
    /\ ~(t < args.T)
    /\ pc' = "returned"
    /\ result' = <<history>>
    /\ UNCHANGED <<driver, args, state, history, t, pressures, shocks>>

kernel3_step(stock, capacity, drift, inflow, outflow, k_capacity, alpha, delta) ==
    LET flow == inflow - outflow
        pressure == flow - capacity
        stock_next == stock + inflow - outflow
        capacity_next == capacity + Mul(k_capacity, flow - capacity)
        drift_next == Mul(1000 - delta, drift) + Mul(alpha, pressure)
    IN  [stock_next |-> stock_next, capacity_next |-> capacity_next,
         drift_next |-> drift_next, flow |-> flow, pressure |-> pressure]

simulate_kernel3_loop ==
    /\ driver = "simulate_kernel3"
    /\ pc = "loop"
    /\ t < args.T
    /\ LET S == state.S
           C == state.C
           D == state.D
           I_t == call_rule(args.inflow_rule, t, S, C, D)
           O_t == call_rule(args.outflow_rule, t, S, C, D)
           r == kernel3_step(S, C, D, I_t, O_t,
                             args.k_capacity, args.alpha, args.delta)
       IN  /\ history' = Append(history,
                   [t |-> t, stock |-> S, inflow |-> I_t, outflow |-> O_t,
                    flow |-> r.flow, capacity |-> C, pressure |-> r.pressure,
                    drift |-> D])
           /\ pressures' = <<r.pressure>>
           /\ state' = [S |-> r.stock_next, C |-> r.capacity_next,
                        D |-> r.drift_next]
    /\ t' = t + 1
    /\ UNCHANGED <<driver, args, pc, result, shocks>>

simulate_kernel3_return ==
    /\ driver = "simulate_kernel3"
    /\ pc = "loop"
    /\ ~(t < args.T)
    /\ pc' = "returned"
    /\ result' = <<history>>
    /\ UNCHANGED <<driver, args, state, history, t, pressures, shocks>>

----------------------------------------------------------------------------
(* two_system_contagion_kernel.py *)

two_system_step(F1, C1, D1, F2, C2, D2, T, k1, k2, alpha1, alpha2, delta1, delta2, r1, r2, lambda_T, coupling, shock1) ==
    LET P1 == F1 - C1
        P2 == F2 - C2
        D1_next == Mul(1000 - delta1, D1) + Mul(alpha1, P1)
        D2_next == Mul(1000 - delta2, D2) + Mul(alpha2, P2 + Mul(coupling, P1))
        total_pressure == Abs(P1) + Abs(P2)
        T_next == Max(0, T - Mul(lambda_T, total_pressure))
        F1_next == F1 + Mul(r1, T) - D1 - P1 + shock1
        F2_next == F2 + Mul(r2, T) - D2 - P2
        C1_next == C1 + Mul(k1, F1 - C1)
        C2_next == C2 + Mul(k2, F2 - C2)
    IN  [F1 |-> F1_next, C1 |-> C1_next, D1 |-> D1_next,
         F2 |-> F2_next, C2 |-> C2_next, D2 |-> D2_next,
         T |-> T_next, P1 |-> P1, P2 |-> P2]

simulate_two_system_kernel_loop ==
    /\ driver = "simulate_two_system_kernel"
    /\ pc = "loop"
    /\ t < args.T_steps
    /\ LET shock1 == IF t < args.bubble_steps THEN args.bubble_shock ELSE 0
           r == two_system_step(state.F1, state.C1, state.D1,
                                state.F2, state.C2, state.D2, state.T,
                                args.k1, args.k2, args.alpha1, args.alpha2,
                                args.delta1, args.delta2, args.r1, args.r2,
                                args.lambda_T, args.coupling, shock1)
       IN  /\ state' = [F1 |-> r.F1, C1 |-> r.C1, D1 |-> r.D1,
                        F2 |-> r.F2, C2 |-> r.C2, D2 |-> r.D2, T |-> r.T]
           /\ history' = Append(history,
                   [t |-> t, F1 |-> r.F1, C1 |-> r.C1, P1 |-> r.P1,
                    D1 |-> r.D1, F2 |-> r.F2, C2 |-> r.C2, P2 |-> r.P2,
                    D2 |-> r.D2, T |-> r.T])
           /\ pressures' = <<r.P1, r.P2>>
           /\ shocks' = <<[F |-> shock1, C |-> 0], [F |-> 0, C |-> 0]>>
    /\ t' = t + 1
    /\ UNCHANGED <<driver, args, pc, result>>

simulate_two_system_kernel_return ==
    /\ driver = "simulate_two_system_kernel"
    /\ pc = "loop"
    /\ ~(t < args.T_steps)
    /\ pc' = "returned"
    /\ result' = <<history>>
    /\ UNCHANGED <<driver, args, state, history, t, pressures, shocks>>

----------------------------------------------------------------------------
(* Arguments the callers pass. *)

StepCounts == (0 - 1)..MaxSteps

ShockValues == {0 - 3000, 2500}

ShockLists == Optional(SeqsUpTo(ShockValues, MaxShockLen))

\* Scenario A's state, and states at, below and above capacity with trust
\* on both of its bounds.
EngineAStates ==
    {[F |-> f, C |-> 8000, T |-> tr, D |-> d] :
        f \in {10000, 3000}, tr \in {0, 500, 1000}, d \in {0, 400}}

\* Scenario A's parameters, a strong trust recovery (trust saturates at 1)
\* and a strong trust erosion (trust saturates at 0).
ScenarioAParams ==
    [r |-> 100, alpha |-> 200, delta |-> 100,
     lambda_trust |-> 50, rho_trust |-> 20, kappa_capacity |-> 300]

RecoveryParams ==
    [r |-> 500, alpha |-> 400, delta |-> 1000,
     lambda_trust |-> 0, rho_trust |-> 700, kappa_capacity |-> 1000]

ErosionParams ==
    [r |-> 0, alpha |-> 1000, delta |-> 0,
     lambda_trust |-> 2000, rho_trust |-> 0, kappa_capacity |-> 0]

\* a drift decay rate above 1, outside the range the parameters are meant
\* to have
OverDecayParams ==
    [r |-> 100, alpha |-> 200, delta |-> 1500,
     lambda_trust |-> 50, rho_trust |-> 20, kappa_capacity |-> 300]

EngineAParamSets ==
    {ScenarioAParams, RecoveryParams, ErosionParams, OverDecayParams}

\* ramps of shocks: entry k is worth 1000 * k - 1500, so every index
\* carries its own value
RampLists ==
    Optional({[k \in 1..n |-> 1000 * k - 1500] : n \in 0..MaxShockLen})

InitEngineA ==
    /\ driver = "run_engine_a"
    /\ args \in [state : EngineAStates, params : EngineAParamSets,
                 steps : StepCounts, shocks_F : ShockLists,
                 shocks_C : RampLists]
    /\ state = args.state
    /\ history = <<args.state>>

\* EngineBLayerParams: the fields of EngineAParams and beta_drift_from_other
Layer(p, beta) ==
    [r |-> p.r, alpha |-> p.alpha, delta |-> p.delta,
     lambda_trust |-> p.lambda_trust, rho_trust |-> p.rho_trust,
     kappa_capacity |-> p.kappa_capacity, beta_drift_from_other |-> beta]

EngineBParamSets ==
    {[fast |-> Layer(ScenarioAParams, 0), slow |-> Layer(RecoveryParams, 300),
      gamma_fs |-> 50],
     [fast |-> Layer(ErosionParams, 100), slow |-> Layer(ErosionParams, 500),
      gamma_fs |-> 0]}

InitEngineB ==
    /\ driver = "run_engine_b"
    /\ args \in [state : [fast : EngineAStates, slow : EngineAStates],
                 params : EngineBParamSets, steps : StepCounts]
    /\ state = args.state
    /\ history = <<args.state>>

\* systems with pressure 2, with pressure 5 (Scenario B) and below capacity
\* with some drift accumulated
EngineCSystemStates ==
    {[F |-> 10000, C |-> 8000, T |-> 500, D |-> 0],
     [F |-> 13000, C |-> 8000, T |-> 1000, D |-> 0],
     [F |-> 3000, C |-> 8000, T |-> 0, D |-> 600]}

\* the same parameters for every system, or different ones from system to
\* system
ParamLists(M) ==
    {[i \in 1..M |-> ScenarioAParams],
     [i \in 1..M |-> CASE i % 3 = 1 -> RecoveryParams
                       [] i % 3 = 2 -> ScenarioAParams
                       [] OTHER -> ErosionParams]}

ZeroW(R, K) == [i \in 1..R |-> [j \in 1..K |-> 0]]

\* Scenario B: W[0][1] = 1.0 and all else zero
ScenarioBW(R, K) ==
    [i \in 1..R |-> [j \in 1..K |-> IF i = 1 /\ j = 2 THEN 1000 ELSE 0]]

\* asymmetric, with a non-zero diagonal and negative entries
DenseW(R, K) ==
    [i \in 1..R |-> [j \in 1..K |->
        IF i = j THEN 500 ELSE IF i < j THEN 1000 ELSE 0 - 250 * j]]

\* N rows, of which the last has one entry too many
RaggedW(N) ==
    [i \in 1..N |-> [j \in 1..(IF i = N THEN N + 1 ELSE N) |-> 0]]

\* EngineCParams whose shapes agree with N systems
MatchingParams(N) ==
    [params_per_system : ParamLists(N),
     W : {ZeroW(N, N), ScenarioBW(N, N), DenseW(N, N)}]

\* EngineCParams of which one dimension is one too small or one too large
MismatchedParams(N) ==
    [params_per_system : ParamLists(N - 1) \cup ParamLists(N + 1),
     W : {DenseW(N, N)}]
    \cup
    [params_per_system : {[i \in 1..N |-> ScenarioAParams]},
     W : {DenseW(N - 1, N), DenseW(N + 1, N), DenseW(N, N - 1),
          DenseW(N, N + 1), RaggedW(N)}]

EngineCParamSets(N) == MatchingParams(N) \cup MismatchedParams(N)

InitEngineC ==
    /\ driver = "run_engine_c"
    /\ \E N \in 1..MaxN :
          args \in [state : [systems : [1..N -> EngineCSystemStates]],
                    params : EngineCParamSets(N), steps : StepCounts]
    /\ state = args.state
    /\ history = <<args.state>>

InitEngineCStep ==
    /\ driver = "engine_c_step"
    /\ \E N \in 1..MaxN :
          args \in [state : [systems : [1..N -> EngineCSystemStates]],
                    params : EngineCParamSets(N),
                    shocks_F : RampLists, shocks_C : RampLists]
    /\ state = args.state
    /\ history = <<>>

Rules(kinds) == [kind : kinds, v : {100, 2000}]

InitKernel2 ==
    /\ driver = "simulate_kernel2"
    /\ args \in [T : StepCounts, S0 : {0, 10000}, C0 : {500, 6000},
                 k_capacity : {200, 1000},
                 inflow_rule : Rules({"const", "ramp", "capacity"}),
                 outflow_rule : Rules({"const", "stock"})]
    /\ state = [S |-> args.S0, C |-> args.C0]
    /\ history = <<>>

InitKernel3 ==
    /\ driver = "simulate_kernel3"
    /\ args \in [T : StepCounts, S0 : {10000}, C0 : {500, 6000},
                 D0 : {0, 1000}, k_capacity : {200}, alpha : {400},
                 delta : {100, 1000},
                 inflow_rule : Rules({"const", "ramp", "drift"}),
                 outflow_rule : Rules({"const", "stock"})]
    /\ state = [S |-> args.S0, C |-> args.C0, D |-> args.D0]
    /\ history = <<>>

\* the structural parameters at their default values; the trust erosion
\* rate lambda_T and the bubble are varied
InitTwoSystem ==
    /\ driver = "simulate_two_system_kernel"
    /\ args \in [T_steps : StepCounts,
                 F1_0 : {800, 1000, 1500}, C1_0 : {1000}, D1_0 : {0},
                 F2_0 : {700, 1000, 1200}, C2_0 : {1000}, D2_0 : {0, 100},
                 T0 : {0, 500, 1000},
                 k1 : {200}, k2 : {50}, alpha1 : {400}, alpha2 : {200},
                 delta1 : {100}, delta2 : {50}, r1 : {800}, r2 : {500},
                 lambda_T : {0 - 100, 0, 100, 2000}, coupling : {300},
                 bubble_steps : {1, 10}, bubble_shock : {500}]
    /\ state = [F1 |-> args.F1_0, C1 |-> args.C1_0, D1 |-> args.D1_0,
                F2 |-> args.F2_0, C2 |-> args.C2_0, D2 |-> args.D2_0,
                T |-> args.T0]
    /\ history = <<>>

----------------------------------------------------------------------------

Init ==
    /\ t = 0
    /\ pc = "loop"
    /\ result = <<>>
    /\ pressures = <<>>
    /\ shocks = <<>>
    /\ \/ InitEngineA
       \/ InitEngineB
       \/ InitEngineC
       \/ InitEngineCStep
       \/ InitKernel2
       \/ InitKernel3
       \/ InitTwoSystem

Next ==
    \/ run_engine_a_loop
    \/ run_engine_a_return
    \/ run_engine_b_loop
    \/ run_engine_b_return
    \/ run_engine_c_loop
    \/ run_engine_c_raise
    \/ run_engine_c_return
    \/ engine_c_step_call
    \/ engine_c_step_raise
    \/ simulate_kernel2_loop
    \/ simulate_kernel2_return
    \/ simulate_kernel3_loop
    \/ simulate_kernel3_return
    \/ simulate_two_system_kernel_loop
    \/ simulate_two_system_kernel_return

Spec == Init /\ [][Next]_vars

----------------------------------------------------------------------------
(* What the claims read. *)

EngineDrivers == {"run_engine_a", "run_engine_b", "run_engine_c"}

\* the single systems of an entry of an engine's history
SystemsOf(e) ==
    CASE driver = "run_engine_a" -> <<e>>
      [] driver = "run_engine_b" -> <<e.fast, e.slow>>
      [] OTHER -> e.systems

\* the parameters of the single systems, in the same order
ParamsOfSystems ==
    CASE driver = "run_engine_a" -> <<args.params>>
      [] driver = "run_engine_b" -> <<args.params.fast, args.params.slow>>
      [] OTHER -> args.params.params_per_system

\* the value of the trust update before it is clamped
RawTrust(s, p) ==
    s.T + p.rho_trust - Mul(p.lambda_trust, Max(0, s.F - s.C))

\* the shared trust of the two-system kernel before entry k was produced
SharedTrustBefore(k) == IF k = 1 THEN args.T0 ELSE history[k - 1].T

RawSharedTrust(k) ==
    SharedTrustBefore(k)
      - Mul(args.lambda_T, Abs(history[k].P1) + Abs(history[k].P2))

\* the network state the most recent engine_c_step was called with
PreStep ==
    IF driver = "engine_c_step" THEN args.state
    ELSE history[Len(history) - 1]

\* the exogenous shocks the most recent engine_c_step was called with
CallShocksF == IF driver = "engine_c_step" THEN args.shocks_F ELSE None

CallShocksC == IF driver = "engine_c_step" THEN args.shocks_C ELSE None

\* entry i (from 1) of an optional shock list, 0 where it has none
Provided(list, i) ==
    IF list = None THEN 0
    ELSE IF i > Len(list[1]) THEN 0 ELSE list[1][i]

EngineCStepped == driver \in {"run_engine_c", "engine_c_step"} /\ t >= 1

----------------------------------------------------------------------------
(* C1: from an initial trust in [0,1] and non-negative trust parameters,   *)
(* every Trust of every entry of the history of run_engine_a,              *)
(* run_engine_b, run_engine_c and simulate_two_system_kernel lies in       *)
(* [0,1]; an update whose raw value exceeds 1 yields exactly 1 and one     *)
(* whose raw value is below 0 yields exactly 0.                            *)

TrustPrecondition ==
    IF driver = "simulate_two_system_kernel"
    THEN args.T0 >= 0 /\ args.T0 <= 1000 /\ args.lambda_T >= 0
    ELSE /\ \A i \in 1..Len(SystemsOf(args.state)) :
               SystemsOf(args.state)[i].T >= 0
               /\ SystemsOf(args.state)[i].T <= 1000
         /\ \A i \in 1..Len(ParamsOfSystems) :
               ParamsOfSystems[i].rho_trust >= 0
               /\ ParamsOfSystems[i].lambda_trust >= 0

TrustClamped ==
    /\ (driver \in EngineDrivers /\ TrustPrecondition) =>
          \A k \in 1..Len(history) :
             \A i \in 1..Len(SystemsOf(history[k])) :
                LET cur == SystemsOf(history[k])[i]
                IN  /\ 0 <= cur.T /\ cur.T <= 1000
                    /\ k > 1 =>
                          LET raw == RawTrust(SystemsOf(history[k - 1])[i],
                                              ParamsOfSystems[i])
                          IN  /\ raw > 1000 => cur.T = 1000
                              /\ raw < 0 => cur.T = 0
    /\ (driver = "simulate_two_system_kernel" /\ TrustPrecondition) =>
          \A k \in 1..Len(history) :
             /\ 0 <= history[k].T /\ history[k].T <= 1000
             /\ RawSharedTrust(k) < 0 => history[k].T = 0

\* a network history in which one system's trust was cut down to exactly 1
\* and another system's trust was lifted to exactly 0
TrustClampedWitness ==
    /\ driver = "run_engine_c"
    /\ Len(history) >= 2
    /\ \E i, j \in 1..Len(history[2].systems) :
          /\ RawTrust(history[1].systems[i], ParamsOfSystems[i]) > 1000
          /\ history[2].systems[i].T = 1000
          /\ RawTrust(history[1].systems[j], ParamsOfSystems[j]) < 0
          /\ history[2].systems[j].T = 0

----------------------------------------------------------------------------
(* C2: in engine_c_step the flow shock handed to system i's transition is  *)
(* exo_F[i] + sum over j of W[i][j] * max(0, F_j - C_j) with every F_j and *)
(* C_j taken from the pre-step network state, for every N and every        *)
(* coupling matrix; system i's next state is its single-system transition  *)
(* from its pre-step state under that shock, so it does not depend on the  *)
(* order in which the systems are processed.                               *)

RECURSIVE CoupledPressure(_, _, _)
CoupledPressure(pre, i, n) ==
    IF n = 0 THEN 0
    ELSE CoupledPressure(pre, i, n - 1)
           + Mul(args.params.W[i][n],
                 Max(0, pre.systems[n].F - pre.systems[n].C))

ShockFromPreStep(i) ==
    Provided(CallShocksF, i)
      + CoupledPressure(PreStep, i, Len(PreStep.systems))

SimultaneousCoupling ==
    EngineCStepped =>
       /\ Len(state.systems) = Len(PreStep.systems)
       /\ \A i \in 1..Len(PreStep.systems) :
             /\ shocks[i].F = ShockFromPreStep(i)
             /\ state.systems[i] =
                   engine_a_step(PreStep.systems[i],
                                 args.params.params_per_system[i],
                                 ShockFromPreStep(i),
                                 Provided(CallShocksC, i))

\* Scenario B: W[0][1] = 1 and all else zero, system 1 has pressure 5 and
\* system 0 a pressure of its own; system 0's endogenous shock is 5
SimultaneousCouplingWitness ==
    /\ driver = "run_engine_c"
    /\ t = 1
    /\ Len(PreStep.systems) = 2
    /\ args.params.W = <<<<0, 1000>>, <<0, 0>>>>
    /\ PreStep.systems[1].F - PreStep.systems[1].C = 2000
    /\ PreStep.systems[2].F - PreStep.systems[2].C = 5000
    /\ shocks[1].F = 5000
    /\ shocks[2].F = 0

----------------------------------------------------------------------------
(* C3: with an all-zero coupling matrix the N-system engine gives every    *)
(* system, at every step, exactly the state the single-system kernel gives *)
(* that system alone with the same parameters and the same exogenous       *)
(* shocks, for N = 1 and for larger N.                                     *)

ZeroCoupling ==
    /\ driver \in {"run_engine_c", "engine_c_step"}
    /\ engine_c_asserts(args.state, args.params)
    /\ \A i \in 1..Len(args.params.W) :
          \A j \in 1..Len(args.params.W[i]) : args.params.W[i][j] = 0

\* system i alone, after n steps of the single-system kernel without
\* exogenous shocks (run_engine_c passes none)
RECURSIVE Alone(_, _)
Alone(i, n) ==
    IF n = 0 THEN args.state.systems[i]
    ELSE engine_a_step(Alone(i, n - 1), args.params.params_per_system[i],
                       0, 0)

ZeroCouplingIndependence ==
    /\ (ZeroCoupling /\ driver = "run_engine_c") =>
          \A k \in 1..Len(history) :
             /\ Len(history[k].systems) = Len(args.state.systems)
             /\ \A i \in 1..Len(args.state.systems) :
                   history[k].systems[i] = Alone(i, k - 1)
    /\ (ZeroCoupling /\ driver = "engine_c_step" /\ pc = "returned") =>
          /\ Len(result[1].systems) = Len(args.state.systems)
          /\ \A i \in 1..Len(args.state.systems) :
                result[1].systems[i] =
                   engine_a_step(args.state.systems[i],
                                 args.params.params_per_system[i],
                                 exo(args.shocks_F, i - 1),
                                 exo(args.shocks_C, i - 1))

\* three systems with different parameters, two of them under pressure,
\* run to the end of the longest horizon without coupling
ZeroCouplingWitness ==
    /\ ZeroCoupling
    /\ driver = "run_engine_c"
    /\ pc = "returned"
    /\ Len(args.state.systems) = 3
    /\ Len(result[1]) = MaxSteps + 1
    /\ args.params.params_per_system[1] # args.params.params_per_system[2]
    /\ engine_a_P(args.state.systems[1]) > 0
    /\ engine_a_P(args.state.systems[2]) > 0

----------------------------------------------------------------------------
(* C4: engine_a_step returns D_next = D + alpha*P - delta*D,               *)
(* T_next = clamp(T + rho_trust - lambda_trust*P, 0, 1),                   *)
(* C_next = C + kappa_capacity*(F - C) + shock_C and                       *)
(* F_next = F + r*T_next + shock_F - P with P = max(0, F - C): the flow    *)
(* reads the updated trust, everything else the pre-step values.           *)
(* Scenario A (F=10, C=8, T=0.5, D=0) gives D=0.4, T=0.42, C=8.6, F=8.042. *)

ScenarioA ==
    /\ driver = "run_engine_a"
    /\ args.state = [F |-> 10000, C |-> 8000, T |-> 500, D |-> 0]
    /\ args.params = [r |-> 100, alpha |-> 200, delta |-> 100,
                      lambda_trust |-> 50, rho_trust |-> 20,
                      kappa_capacity |-> 300]
    /\ args.shocks_F = None
    /\ args.shocks_C = None

EngineAUpdateOrder ==
    /\ (driver = "run_engine_a" /\ t >= 1) =>
          LET old == history[Len(history) - 1]
              q == args.params
              P == IF old.F - old.C > 0 THEN old.F - old.C ELSE 0
              raw == old.T + q.rho_trust - Mul(q.lambda_trust, P)
              T_next == IF raw > 1000 THEN 1000 ELSE IF raw < 0 THEN 0 ELSE raw
          IN  /\ state.D = old.D + Mul(q.alpha, P) - Mul(q.delta, old.D)
              /\ state.T = T_next
              /\ state.C = old.C + Mul(q.kappa_capacity, old.F - old.C)
                             + shocks[1].C
              /\ state.F = old.F + Mul(q.r, T_next) + shocks[1].F - P
    /\ (ScenarioA /\ t >= 1) =>
          history[2] = [F |-> 8042, C |-> 8600, T |-> 420, D |-> 400]

EngineAUpdateOrderWitness ==
    /\ ScenarioA
    /\ t = 1
    /\ state = [F |-> 8042, C |-> 8600, T |-> 420, D |-> 400]

----------------------------------------------------------------------------
(* C5: the pressure a step computes.  engine_a_step, engine_b_step and     *)
(* engine_c_step compute max(0, F - C), which is never negative and is     *)
(* zero whenever flow is at or below capacity; kernel2_step, kernel3_step  *)
(* and two_system_step compute and record the signed difference F - C,     *)
(* which is negative whenever flow is below capacity.                      *)

ClampedVariants ==
    {"run_engine_a", "run_engine_b", "run_engine_c", "engine_c_step"}

\* flow and capacity of every system as the most recent step found them
PreStepFC ==
    CASE driver \in {"run_engine_a", "run_engine_b", "run_engine_c"} ->
            SystemsOf(history[Len(history) - 1])
      [] driver = "engine_c_step" -> args.state.systems
      [] driver \in {"simulate_kernel2", "simulate_kernel3"} ->
            <<[F |-> history[Len(history)].flow,
               C |-> history[Len(history)].capacity]>>
      [] OTHER ->
            IF Len(history) = 1
            THEN <<[F |-> args.F1_0, C |-> args.C1_0],
                   [F |-> args.F2_0, C |-> args.C2_0]>>
            ELSE <<[F |-> history[Len(history) - 1].F1,
                    C |-> history[Len(history) - 1].C1],
                   [F |-> history[Len(history) - 1].F2,
                    C |-> history[Len(history) - 1].C2]>>

\* the pressures the most recent entry of a kernel's time series records
RecordedPressures ==
    IF driver = "simulate_two_system_kernel"
    THEN <<history[Len(history)].P1, history[Len(history)].P2>>
    ELSE <<history[Len(history)].pressure>>

\* the claim as stated: every variant's pressure is max(0, F - C)
PressureNeverNegative ==
    t >= 1 =>
       /\ Len(pressures) = Len(PreStepFC)
       /\ \A k \in 1..Len(pressures) :
             /\ pressures[k] >= 0
             /\ pressures[k] = Max(0, PreStepFC[k].F - PreStepFC[k].C)

PressureByVariant ==
    t >= 1 =>
       /\ Len(pressures) = Len(PreStepFC)
       /\ \A k \in 1..Len(pressures) :
             LET excess == PreStepFC[k].F - PreStepFC[k].C
             IN  IF driver \in ClampedVariants
                 THEN /\ pressures[k] >= 0
                      /\ excess <= 0 => pressures[k] = 0
                      /\ excess > 0 => pressures[k] = excess
                 ELSE /\ pressures[k] = excess
                      /\ RecordedPressures[k] = excess

\* a network step over a system below capacity, whose pressure is zero, and
\* a system above capacity, whose pressure is its excess flow
PressureByVariantWitness ==
    /\ driver = "run_engine_c"
    /\ t = 1
    /\ \E i, j \in 1..Len(pressures) :
          /\ PreStepFC[i].F < PreStepFC[i].C
          /\ pressures[i] = 0
          /\ PreStepFC[j].F > PreStepFC[j].C
          /\ pressures[j] = PreStepFC[j].F - PreStepFC[j].C

----------------------------------------------------------------------------
(* C6: the list a driver returns for a step count steps >= 0.              *)
(* run_engine_a, run_engine_b and run_engine_c return steps + 1 entries,   *)
(* entry 0 the initial condition and entry t the state after exactly t     *)
(* transitions.  simulate_kernel2 and simulate_kernel3 return steps        *)
(* entries: entry t holds the stock, capacity and drift after t            *)
(* transitions (entry 0 the initial condition) and the state after the     *)
(* last transition is not recorded.  simulate_two_system_kernel returns    *)
(* steps entries: entry t holds the state after t + 1 transitions and the  *)
(* initial condition is not recorded.                                      *)

Drivers ==
    {"run_engine_a", "run_engine_b", "run_engine_c", "simulate_kernel2",
     "simulate_kernel3", "simulate_two_system_kernel"}

StepsArg ==
    CASE driver \in EngineDrivers -> args.steps
      [] driver \in {"simulate_kernel2", "simulate_kernel3"} -> args.T
      [] OTHER -> args.T_steps

\* the state of an engine after n transitions from its initial condition
RECURSIVE EngineAfter(_)
EngineAfter(n) ==
    IF n = 0 THEN args.state
    ELSE CASE driver = "run_engine_a" ->
                 engine_a_step(EngineAfter(n - 1), args.params,
                               exo(args.shocks_F, n - 1),
                               exo(args.shocks_C, n - 1))
           [] driver = "run_engine_b" ->
                 engine_b_step(EngineAfter(n - 1), args.params, 0, 0, 0, 0)
           [] OTHER ->
                 engine_c_step(EngineAfter(n - 1), args.params, None, None)

\* stock, capacity and drift of kernel 2 or 3 after n transitions
RECURSIVE KernelAfter(_)
KernelAfter(n) ==
    IF n = 0
    THEN [S |-> args.S0, C |-> args.C0,
          D |-> IF driver = "simulate_kernel3" THEN args.D0 ELSE 0]
    ELSE LET b == KernelAfter(n - 1)
             I_t == call_rule(args.inflow_rule, n - 1, b.S, b.C, b.D)
             O_t == call_rule(args.outflow_rule, n - 1, b.S, b.C, b.D)
         IN  IF driver = "simulate_kernel3"
             THEN LET r == kernel3_step(b.S, b.C, b.D, I_t, O_t,
                                        args.k_capacity, args.alpha,
                                        args.delta)
                  IN  [S |-> r.stock_next, C |-> r.capacity_next,
                       D |-> r.drift_next]
             ELSE LET r == kernel2_step(b.S, b.C, I_t, O_t, args.k_capacity)
                  IN  [S |-> r.stock_next, C |-> r.capacity_next, D |-> 0]

\* the state of the two-system kernel after n transitions
RECURSIVE TwoSystemAfter(_)
TwoSystemAfter(n) ==
    IF n = 0
    THEN [F1 |-> args.F1_0, C1 |-> args.C1_0, D1 |-> args.D1_0,
          F2 |-> args.F2_0, C2 |-> args.C2_0, D2 |-> args.D2_0,
          T |-> args.T0]
    ELSE LET b == TwoSystemAfter(n - 1)
             r == two_system_step(b.F1, b.C1, b.D1, b.F2, b.C2, b.D2, b.T,
                     args.k1, args.k2, args.alpha1, args.alpha2,
                     args.delta1, args.delta2, args.r1, args.r2,
                     args.lambda_T, args.coupling,
                     IF n - 1 < args.bubble_steps
                     THEN args.bubble_shock ELSE 0)
         IN  [F1 |-> r.F1, C1 |-> r.C1, D1 |-> r.D1,
              F2 |-> r.F2, C2 |-> r.C2, D2 |-> r.D2, T |-> r.T]

Returned == driver \in Drivers /\ pc = "returned" /\ StepsArg >= 0

\* the claim as stated: every driver returns steps + 1 entries, entry 0
\* being the initial condition
HistoryLengthEveryDriver ==
    Returned =>
       /\ Len(result[1]) = StepsArg + 1
       /\ driver \in EngineDrivers => result[1][1] = args.state
       /\ driver \in {"simulate_kernel2", "simulate_kernel3"} =>
             /\ result[1][1].stock = args.S0
             /\ result[1][1].capacity = args.C0
       /\ driver = "simulate_two_system_kernel" =>
             /\ result[1][1].F1 = args.F1_0
             /\ result[1][1].F2 = args.F2_0

HistoryShape ==
    Returned =>
       CASE driver \in EngineDrivers ->
               /\ Len(result[1]) = StepsArg + 1
               /\ \A n \in 0..StepsArg : result[1][n + 1] = EngineAfter(n)
         [] driver \in {"simulate_kernel2", "simulate_kernel3"} ->
               /\ Len(result[1]) = StepsArg
               /\ \A n \in 0..(StepsArg - 1) :
                     /\ result[1][n + 1].t = n
                     /\ result[1][n + 1].stock = KernelAfter(n).S
                     /\ result[1][n + 1].capacity = KernelAfter(n).C
                     /\ driver = "simulate_kernel3" =>
                           result[1][n + 1].drift = KernelAfter(n).D
               /\ state.S = KernelAfter(StepsArg).S
               /\ state.C = KernelAfter(StepsArg).C
         [] OTHER ->
               /\ Len(result[1]) = StepsArg
               /\ \A n \in 0..(StepsArg - 1) :
                     LET e == result[1][n + 1]
                         a == TwoSystemAfter(n + 1)
                     IN  /\ e.t = n
                         /\ e.F1 = a.F1 /\ e.C1 = a.C1 /\ e.D1 = a.D1
                         /\ e.F2 = a.F2 /\ e.C2 = a.C2 /\ e.D2 = a.D2
                         /\ e.T = a.T

\* run_engine_a returned after the longest horizon, under shocks, and every
\* transition moved the state
HistoryShapeWitness ==
    /\ driver = "run_engine_a"
    /\ pc = "returned"
    /\ args.steps = MaxSteps
    /\ args.shocks_F # None
    /\ Len(result[1]) = MaxSteps + 1
    /\ \A n \in 1..MaxSteps : result[1][n + 1] # result[1][n]

----------------------------------------------------------------------------
(* C7: when the number of system states, the number of parameter sets and  *)
(* the shape of the coupling matrix do not agree, the N-system engine      *)
(* raises before any transition and returns no history, for every step     *)
(* count steps >= 0, steps = 0 included.                                   *)

ShapeMismatch ==
    /\ driver = "run_engine_c"
    /\ ~engine_c_asserts(args.state, args.params)

MismatchReturnsNoHistory ==
    (ShapeMismatch /\ args.steps >= 0) => result = <<>>

----------------------------------------------------------------------------
(* C8: a driver called with a negative step count fails before any step    *)
(* executes and returns no history.                                        *)

NegativeStepsReturnNoHistory ==
    (driver \in EngineDrivers /\ args.steps < 0) => pc # "returned"

----------------------------------------------------------------------------
(* C9: where an exogenous shock list is absent or too short, engine_c_step *)
(* (per system) and run_engine_a (per time step) use a shock of 0 for the  *)
(* missing indices only and raise no error, and every entry that is        *)
(* provided is applied at its own index.                                   *)

MissingShocksAreZero ==
    /\ driver = "run_engine_a" =>
          /\ pc # "raised"
          /\ t >= 1 =>
                /\ shocks[1].F = Provided(args.shocks_F, t)
                /\ shocks[1].C = Provided(args.shocks_C, t)
                /\ state = engine_a_step(history[Len(history) - 1],
                                         args.params,
                                         Provided(args.shocks_F, t),
                                         Provided(args.shocks_C, t))
    /\ (driver = "engine_c_step"
        /\ engine_c_asserts(args.state, args.params)) =>
          /\ pc # "raised"
          /\ pc = "returned" =>
                \A i \in 1..Len(args.state.systems) :
                   LET endo == endogenous_shocks_F(args.state, args.params)[i]
                   IN  /\ shocks[i].F = Provided(args.shocks_F, i) + endo
                       /\ shocks[i].C = Provided(args.shocks_C, i)
                       /\ result[1].systems[i] =
                             engine_a_step(args.state.systems[i],
                                args.params.params_per_system[i],
                                Provided(args.shocks_F, i) + endo,
                                Provided(args.shocks_C, i))

\* engine_c_step over more systems than the flow shock list has entries,
\* with no capacity shock list: the last system gets no exogenous shock,
\* the systems before it get their own entries
MissingShocksAreZeroWitness ==
    /\ driver = "engine_c_step"
    /\ pc = "returned"
    /\ args.shocks_F # None
    /\ args.shocks_C = None
    /\ Len(args.state.systems) = Len(args.shocks_F[1]) + 1
    /\ Len(args.shocks_F[1]) >= 1
    /\ args.params.W = ZeroW(Len(args.state.systems), Len(args.state.systems))
    /\ shocks[Len(args.state.systems)].F = 0
    /\ \A i \in 1..Len(args.shocks_F[1]) :
          shocks[i].F = args.shocks_F[1][i] /\ shocks[i].F # 0

----------------------------------------------------------------------------
(* C11: in the single-system and the N-system engine, from an initial      *)
(* Drift >= 0 with alpha >= 0 and 0 <= delta <= 1, the Drift of every      *)
(* system is >= 0 in every history entry, whatever the flows, capacities,  *)
(* coupling weights and shocks; after a step under zero pressure the drift *)
(* lies between zero and its previous value.                               *)

DriftPrecondition ==
    /\ \A i \in 1..Len(SystemsOf(args.state)) :
          SystemsOf(args.state)[i].D >= 0
    /\ \A i \in 1..Len(ParamsOfSystems) :
          /\ ParamsOfSystems[i].alpha >= 0
          /\ ParamsOfSystems[i].delta >= 0
          /\ ParamsOfSystems[i].delta <= 1000

DriftNonNegative ==
    /\ (driver \in {"run_engine_a", "run_engine_c"} /\ DriftPrecondition) =>
          \A k \in 1..Len(history) :
             \A i \in 1..Len(SystemsOf(history[k])) :
                LET cur == SystemsOf(history[k])[i]
                IN  /\ cur.D >= 0
                    /\ k > 1 =>
                          LET old == SystemsOf(history[k - 1])[i]
                          IN  old.F <= old.C => cur.D <= old.D
    /\ (driver = "engine_c_step" /\ DriftPrecondition /\ pc = "returned") =>
          \A i \in 1..Len(result[1].systems) :
             /\ result[1].systems[i].D >= 0
             /\ args.state.systems[i].F <= args.state.systems[i].C =>
                   result[1].systems[i].D <= args.state.systems[i].D

\* a network step in which the drift of a system without pressure decayed
\* and stayed positive while the drift of a system under pressure grew
DriftNonNegativeWitness ==
    /\ driver = "run_engine_c"
    /\ DriftPrecondition
    /\ Len(history) >= 2
    /\ \E i, j \in 1..Len(history[2].systems) :
          /\ history[1].systems[i].F <= history[1].systems[i].C
          /\ history[2].systems[i].D > 0
          /\ history[2].systems[i].D < history[1].systems[i].D
          /\ history[1].systems[j].F > history[1].systems[j].C
          /\ history[2].systems[j].D > history[1].systems[j].D

====
